---- MODULE Spec2Model ----
(***************************************************************************)
(* Exam-Helper-AI backend: material ingestion (upload, vector processing,  *)
(* deletion), test generation (question generator, create_test flow),      *)
(* answer evaluation, test attempts and the text chunker.                  *)
(*                                                                         *)
(* Optional (nullable) columns are modelled as sets: {} is NULL and {x} is *)
(* the value x.                                                            *)
(***************************************************************************)
EXTENDS Integers, Sequences, FiniteSets, TLC

(***************************************************************************)
(* Bounds of the model.                                                    *)
(***************************************************************************)
MaxMaterials == 2
MaxRequests == 3
MaxItems == 2
MaxCount == 3
MaxPoints == 2
MaxKeywords == 10
MaxKeyPoints == 3
MaxAnswers == 2
MaxSentences == 2
MaxWords == 2
MaxChunkSize == 4

Workers == {"w1", "w2"}
Users == {"alice"}

None == {}
Some(x) == {x}

(***************************************************************************)
(* Part 1: materials.                                                      *)
(***************************************************************************)

\* Uploaded file names after secure_filename.
FileNames == {"notes.pdf", "notes.txt", "notes.exe"}

\* os.path.splitext(original_filename)[1].lower()[1:]
FileExt(name) ==
  CASE name = "notes.pdf" -> "pdf"
    [] name = "notes.txt" -> "txt"
    [] OTHER -> "exe"

\* app.config['ALLOWED_EXTENSIONS']
ALLOWED_EXTENSIONS == {"pdf", "txt", "docx"}

\* What a stored file holds, as far as extraction is concerned:
\*   text_short / text_long  readable text (one chunk / three chunks)
\*   blank                   only whitespace can be extracted
\*   unreadable              opens, but extracting the text raises
\*   corrupt                 cannot be opened by the format's reader at all
ContentKinds == {"text_short", "text_long", "blank", "unreadable", "corrupt"}

\* os.path.join(upload_folder, str(user_id), original_filename)
FilePath(user, name) == <<user, name>>
Paths == Users \X FileNames

MatIds == 1..MaxMaterials

\* f"material_{material.id}_{uuid.uuid4().hex[:8]}": the random part is
\* unique per generating call, here the worker that draws it.
CollectionName(m, w) == <<m, w>>

Statuses == {"pending", "processing", "completed", "failed"}

VARIABLES
  vector_configured, \* upload_material's service has vector_service and text_processor
  mat,               \* materials table: id -> option of Material row
  next_id,           \* next primary key of the materials table
  files,             \* upload folder: path -> option of file content
  chroma,            \* collections that exist in the vector store
  pc,                \* per request handler: where it stands
  wm,                \* per request handler: the material it works on
  wop,               \* per request handler: the operation it runs
  lcoll,             \* per request handler: session-local chroma_collection_id
  lchunks,           \* per request handler: len(chunks) of the current run
  last,              \* how the operation that ended last ended
  nreq               \* requests served so far

matVars == <<vector_configured, mat, next_id, files, chroma, pc, wm, wop, lcoll, lchunks, last, nreq>>

\* The question generator (part 2).
VARIABLES
  gen_in,     \* the arguments and the LLM response of a generate_questions call
  gen_out     \* what the call returned

genVars == <<gen_in, gen_out>>

\* create_test and its generation loop (part 3).
VARIABLES
  f_api_key,    \* TOGETHER_API_KEY is set
  db_test,      \* the tests table: option of the Test row
  db_questions, \* the questions table, in insertion order
  fpc,          \* where the create_test call stands
  run,          \* the call's arguments and locals
  flog,         \* per material processed so far: what the iteration did
  fres          \* how create_test ended

flowVars == <<f_api_key, db_test, db_questions, fpc, run, flog, fres>>

\* AIService.evaluate_answer (part 4).
VARIABLES
  ev_in,      \* the question, two student answers, and whether the API key is set
  ev_out      \* what evaluate_answer returned for each of the two answers

evVars == <<ev_in, ev_out>>

\* Test attempts (part 5).
VARIABLES
  a_api_key,  \* TOGETHER_API_KEY is set
  attempts,   \* the test_attempts table: id -> option of TestAttempt row
  answers,    \* the student_answers table, in insertion order
  a_last      \* the call that ended last, and how

attVars == <<a_api_key, attempts, answers, a_last>>

\* TextProcessor.chunk_text (part 6).
VARIABLES
  ck_in,      \* the text, as sent_tokenize cuts it, max_chunk_size and overlap
  ck_out      \* the chunks chunk_text returned

ckVars == <<ck_in, ck_out>>

restVars == <<evVars, attVars, ckVars>>

vars == <<matVars, genVars, flowVars, restVars>>

NoRet == [result |-> "none", cause |-> "none"]

Row1(opt) == CHOOSE r \in opt : TRUE
Row(m) == Row1(mat[m])
Exists(m) == mat[m] # None

\* sent_tokenize + greedy packing: the number of chunks of a readable text.
ChunkCount(kind) ==
  CASE kind = "text_short" -> 1
    [] kind = "text_long" -> 3
    [] OTHER -> 0

\* MaterialService._process_pdf: TRUE when it raises (open or PdfReader fails).
ProcessPdfRaises(path) ==
  \/ files[path] = None
  \/ \E c \in files[path] : c.kind = "corrupt"

\* process_material_for_vectors, lines 111-149: the outcome of extraction
\* and chunking for a material row and the file it points at.
ExtractOutcome(row) ==
  IF row.file_type \notin {"pdf", "txt", "md", "docx"} THEN "unsupported"
  ELSE IF files[row.file_path] = None THEN "extract_error"
  ELSE LET c == CHOOSE c \in files[row.file_path] : TRUE IN
    IF c.kind \in {"unreadable", "corrupt"} THEN "extract_error"
    ELSE IF c.kind = "blank" THEN "blank"
    ELSE IF ChunkCount(c.kind) = 0 THEN "no_chunks"
    ELSE "ok"

ExtractedChunks(row) ==
  LET c == CHOOSE c \in files[row.file_path] : TRUE IN ChunkCount(c.kind)

\* A variant in which upload_material raises when the vector stage failed.
ProcResultRaising(op, ok) ==
  IF op = "upload" THEN (IF ok THEN "returned" ELSE "raised")
  ELSE IF ok THEN "true" ELSE "false"

\* The value an operation reports to its caller when the processing stage
\* ends: upload_material ignores process_material_for_vectors' result and
\* returns the material; the /process route and the rebuild see the boolean.
ProcResult(op, ok) ==
  IF op = "upload" THEN "returned" ELSE IF ok THEN "true" ELSE "false"


\* Material(...) of upload_material, lines 36-46.
NewMaterial(user, name) ==
  [user_id |-> user,
   file_path |-> FilePath(user, name),
   file_type |-> FileExt(name),
   embedding_status |-> "processing",
   chunk_count |-> None,
   chroma_collection_id |-> None,
   error_message |-> None]

\* A variant in which a run starts by resetting the status to "pending".
StartPending(row) == [row EXCEPT !.embedding_status = "pending"]

\* process_material_for_vectors, lines 107-109.
StartProcessing(row) == [row EXCEPT !.embedding_status = "processing"]

\* A variant in which a failing run also resets chunk_count.
MarkFailedResetting(row, msg) ==
  [row EXCEPT !.embedding_status = "failed", !.error_message = Some(msg),
              !.chunk_count = Some(0)]

\* The failure exits of process_material_for_vectors (lines 130-132, 137-139,
\* 146-148, 185-187) and of upload_material (lines 67-69).
MarkFailed(row, msg) ==
  [row EXCEPT !.embedding_status = "failed", !.error_message = Some(msg)]

\* upload_material, lines 62-63.
MarkPending(row) == [row EXCEPT !.embedding_status = "pending"]

\* process_material_for_vectors, lines 169-180: the result of store_document
\* is bound to `result` and never read.
MarkCompleted(row, coll, n, result) ==
  [row EXCEPT !.chroma_collection_id = coll,
              !.chunk_count = Some(n),
              !.embedding_status = "completed"]

\* VectorService.store_document as seen by its caller: "ok" (True), or False
\* after an embedding error (nothing created) or after a failing add on a
\* collection that ensure_collection already created.
StoreOutcomes == {"ok", "embed_error", "add_error"}
StoreResult(outcome) == outcome = "ok"
StoreCreates(outcome) == outcome \in {"ok", "add_error"}

MatInit ==
  /\ vector_configured \in BOOLEAN
  /\ mat = [m \in MatIds |-> None]
  /\ next_id = 1
  /\ files = [p \in Paths |-> None]
  /\ chroma = {}
  /\ pc = [w \in Workers |-> "idle"]
  /\ wm = [w \in Workers |-> 0]
  /\ wop = [w \in Workers |-> "none"]
  /\ lcoll = [w \in Workers |-> None]
  /\ lchunks = [w \in Workers |-> 0]
  /\ last = NoRet
  /\ nreq = 0

\* An operation of handler w ends: its locals are dropped.
Finish(w, result, cause) ==
  /\ pc' = [pc EXCEPT ![w] = "idle"]
  /\ last' = [result |-> result, cause |-> cause]
  /\ wop' = [wop EXCEPT ![w] = "none"]
  /\ wm' = [wm EXCEPT ![w] = 0]
  /\ lcoll' = [lcoll EXCEPT ![w] = None]
  /\ lchunks' = [lchunks EXCEPT ![w] = 0]
  /\ UNCHANGED nreq

Begin(w, op, m, at) ==
  /\ nreq < MaxRequests
  /\ nreq' = nreq + 1
  /\ pc' = [pc EXCEPT ![w] = at]
  /\ wop' = [wop EXCEPT ![w] = op]
  /\ wm' = [wm EXCEPT ![w] = m]
  /\ UNCHANGED <<lcoll, lchunks, last>>

\* POST /api/materials and upload_material up to its first commit (line 49):
\* the file is saved under the user's folder and the row is inserted.
UploadCreate(w, user, name, kind) ==
  /\ pc[w] = "idle"
  /\ FileExt(name) \in ALLOWED_EXTENSIONS
  /\ kind = "corrupt" => FileExt(name) = "pdf"
  /\ next_id <= MaxMaterials
  /\ files' = [files EXCEPT ![FilePath(user, name)] = Some([kind |-> kind])]
  /\ mat' = [mat EXCEPT ![next_id] = Some(NewMaterial(user, name))]
  /\ next_id' = next_id + 1
  /\ Begin(w, "upload", next_id, "uploaded")
  /\ UNCHANGED <<vector_configured, chroma, genVars, flowVars, restVars>>

\* upload_material, lines 51-70: PDF metadata, then either the vector stage
\* (entered here: line 108 commits "processing") or the "pending" exit.
UploadDispatch(w) ==
  /\ pc[w] = "uploaded"
  /\ LET m == wm[w] IN
     IF ~Exists(m)
     THEN /\ Finish(w, "raised", "stale")
          /\ UNCHANGED mat
     ELSE IF Row(m).file_type = "pdf" /\ ProcessPdfRaises(Row(m).file_path)
     THEN /\ mat' = [mat EXCEPT ![m] = Some(MarkFailed(Row(m), "pdf_error"))]
          /\ Finish(w, "raised", "pdf_error")
     ELSE IF vector_configured
     THEN /\ mat' = [mat EXCEPT ![m] = Some(StartProcessing(Row(m)))]
          /\ pc' = [pc EXCEPT ![w] = "proc_extract"]
          /\ UNCHANGED <<wm, wop, lcoll, lchunks, last, nreq>>
     ELSE /\ mat' = [mat EXCEPT ![m] = Some(MarkPending(Row(m)))]
          /\ Finish(w, "returned", "no_vector_service")
  /\ UNCHANGED <<vector_configured, next_id, files, chroma, genVars, flowVars, restVars>>

\* POST /api/materials/<id>/process, lines 243-258, up to the commit of
\* line 109 of process_material_for_vectors. The route's service always has
\* the module's vector_service and text_processor (lines 16-17, 247).
ProcessRoute(w, user, m) ==
  /\ pc[w] = "idle"
  /\ Exists(m)
  /\ Row(m).user_id = user
  /\ files[Row(m).file_path] # None
  /\ mat' = [mat EXCEPT ![m] = Some(StartProcessing(Row(m)))]
  /\ Begin(w, "process", m, "proc_extract")
  /\ UNCHANGED <<vector_configured, next_id, files, chroma, genVars, flowVars, restVars>>

\* rebuild_vectors_for_all_materials, lines 25-27 and 38-41, for one material,
\* up to the commit of line 109 of process_material_for_vectors.
StartupRebuild(w, m) ==
  /\ pc[w] = "idle"
  /\ Exists(m)
  /\ mat' = [mat EXCEPT ![m] = Some(StartProcessing(Row(m)))]
  /\ Begin(w, "rebuild", m, "proc_extract")
  /\ UNCHANGED <<vector_configured, next_id, files, chroma, genVars, flowVars, restVars>>

\* process_material_for_vectors, lines 111-153: extract, chunk, and take the
\* row's collection id or draw a new one.
ProcExtract(w) ==
  /\ pc[w] = "proc_extract"
  /\ LET m == wm[w] IN
     IF ~Exists(m)
     THEN /\ Finish(w, "raised", "stale")
          /\ UNCHANGED mat
     ELSE LET out == ExtractOutcome(Row(m)) IN
       IF out # "ok"
       THEN /\ mat' = [mat EXCEPT ![m] = Some(MarkFailed(Row(m), out))]
            /\ Finish(w, ProcResult(wop[w], FALSE), out)
       ELSE /\ lcoll' = [lcoll EXCEPT ![w] =
                 IF Row(m).chroma_collection_id = None
                 THEN Some(CollectionName(m, w))
                 ELSE Row(m).chroma_collection_id]
            /\ lchunks' = [lchunks EXCEPT ![w] = ExtractedChunks(Row(m))]
            /\ pc' = [pc EXCEPT ![w] = "proc_store"]
            /\ UNCHANGED <<mat, wm, wop, last, nreq>>
  /\ UNCHANGED <<vector_configured, next_id, files, chroma, genVars, flowVars, restVars>>

\* process_material_for_vectors, lines 155-182: store_document, then the
\* commit of the session's pending changes.
ProcStore(w) ==
  /\ pc[w] = "proc_store"
  /\ \E outcome \in StoreOutcomes :
       LET m == wm[w] IN
       /\ chroma' = IF StoreCreates(outcome) THEN chroma \cup lcoll[w] ELSE chroma
       /\ IF ~Exists(m)
          THEN /\ Finish(w, "raised", "stale")
               /\ UNCHANGED mat
          ELSE /\ mat' = [mat EXCEPT ![m] =
                    Some(MarkCompleted(Row(m), lcoll[w], lchunks[w], StoreResult(outcome)))]
               /\ Finish(w, ProcResult(wop[w], TRUE),
                         IF StoreResult(outcome) THEN "stored" ELSE "store_failed")
  /\ UNCHANGED <<vector_configured, next_id, files, genVars, flowVars, restVars>>

\* MaterialService.delete_material, lines 204-229, for a service built with
\* (has_vs) or without a vector_service.
delete_material(m, has_vs) ==
  /\ files' = [files EXCEPT ![Row(m).file_path] = None]
  /\ chroma' = IF Row(m).chroma_collection_id # None /\ has_vs
               THEN chroma \ Row(m).chroma_collection_id
               ELSE chroma
  /\ mat' = [mat EXCEPT ![m] = None]

\* DELETE /api/materials/<id>, lines 147-157: MaterialService(g.db) is built
\* without a vector service.
DeleteRoute(w, user, m) ==
  /\ pc[w] = "idle"
  /\ Exists(m)
  /\ Row(m).user_id = user
  /\ nreq < MaxRequests
  /\ nreq' = nreq + 1
  /\ delete_material(m, FALSE)
  /\ last' = [result |-> "deleted", cause |-> "none"]
  /\ UNCHANGED <<vector_configured, next_id, pc, wm, wop, lcoll, lchunks, genVars, flowVars, restVars>>

MatNext ==
  \/ \E w \in Workers, u \in Users, n \in FileNames, k \in ContentKinds : UploadCreate(w, u, n, k)
  \/ \E w \in Workers : UploadDispatch(w)
  \/ \E w \in Workers, u \in Users, m \in MatIds : ProcessRoute(w, u, m)
  \/ \E w \in Workers, m \in MatIds : StartupRebuild(w, m)
  \/ \E w \in Workers : ProcExtract(w)
  \/ \E w \in Workers : ProcStore(w)
  \/ \E w \in Workers, u \in Users, m \in MatIds : DeleteRoute(w, u, m)


(***************************************************************************)
(* Part 2: the question generator (AIService.generate_questions).          *)
(***************************************************************************)

TestTypes == {"mcq", "short_answer", "long_answer", "mixed"}
QuestionTypes == {"mcq", "short_answer", "long_answer"}

\* The question types a test of the given type may hold.
Family(test_type) == IF test_type = "mixed" THEN QuestionTypes ELSE {test_type}

\* One element of the JSON array the LLM returns, by the keys it carries:
\*   has_text / has_type   'question_text' / 'question_type' in q
\*   qtype                 q['question_type']
\*   has_choices, flags    'choices' in q, and each choice's is_correct
\*   has_ca / has_kp       'correct_answer' / 'key_points' in q
\*   defect                a value the database rejects: a null question_text
\*                         (NOT NULL, at flush) or a null choice text (at commit)
Item(has_text, has_type, qtype, has_choices, flags, has_ca, has_kp, defect) ==
  [source |-> "llm", has_text |-> has_text, has_type |-> has_type, qtype |-> qtype,
   has_choices |-> has_choices, flags |-> flags, has_ca |-> has_ca,
   has_kp |-> has_kp, defect |-> defect]

LlmItems ==
  { Item(TRUE, TRUE, "mcq", TRUE, <<FALSE, TRUE>>, FALSE, FALSE, "none"),
    Item(TRUE, TRUE, "mcq", TRUE, <<TRUE, TRUE>>, FALSE, FALSE, "none"),
    Item(TRUE, TRUE, "mcq", TRUE, <<FALSE, FALSE>>, FALSE, FALSE, "none"),
    Item(TRUE, TRUE, "mcq", FALSE, <<>>, FALSE, FALSE, "none"),
    Item(TRUE, TRUE, "short_answer", FALSE, <<>>, TRUE, FALSE, "none"),
    Item(TRUE, TRUE, "short_answer", FALSE, <<>>, FALSE, TRUE, "none"),
    Item(TRUE, TRUE, "long_answer", FALSE, <<>>, FALSE, TRUE, "none"),
    Item(TRUE, TRUE, "long_answer", FALSE, <<>>, TRUE, FALSE, "none"),
    Item(TRUE, TRUE, "long_answer", FALSE, <<>>, FALSE, FALSE, "none"),
    Item(TRUE, FALSE, "mcq", TRUE, <<TRUE, FALSE>>, FALSE, FALSE, "none"),
    Item(FALSE, TRUE, "short_answer", FALSE, <<>>, TRUE, FALSE, "none"),
    Item(TRUE, TRUE, "mcq", TRUE, <<TRUE, FALSE>>, FALSE, FALSE, "null_text"),
    Item(TRUE, TRUE, "mcq", TRUE, <<TRUE, FALSE>>, FALSE, FALSE, "null_choice_text") }

\* What the HTTP call and the text it returns can be:
\*   network_error  requests raises, _call_ai_api raises RuntimeError
\*   unparseable    json.loads raises on the cleaned text
\*   non_dict_items a JSON array whose elements are not objects
\*   array          a JSON array of objects
Response(kind, items) == [kind |-> kind, items |-> items]

ItemSeqs(n) == UNION { [1..k -> LlmItems] : k \in 0..n }

Responses(n) ==
  { Response(k, <<>>) : k \in {"network_error", "unparseable", "non_dict_items"} }
  \cup { Response("array", items) : items \in ItemSeqs(n) }

\* _parse_questions, lines 245-254: the test applied to each parsed item.
Validated(q) ==
  /\ q.has_text /\ q.has_type
  /\ \/ /\ q.qtype = "mcq"
        /\ q.has_choices
        /\ \E i \in 1..Len(q.flags) : q.flags[i]
     \/ /\ q.qtype \in {"short_answer", "long_answer"}
        /\ (q.has_ca \/ q.has_kp)

\* validated_questions of _parse_questions, lines 243-256.
RECURSIVE ValidatedQuestions(_)
ValidatedQuestions(items) ==
  IF items = <<>> THEN <<>>
  ELSE IF Validated(Head(items))
       THEN <<Head(items)>> \o ValidatedQuestions(Tail(items))
       ELSE ValidatedQuestions(Tail(items))

\* _call_ai_api followed by _parse_questions raises.
CallOrParseRaises(resp) == resp.kind # "array"

\* The canned questions of _generate_fallback_questions, lines 269-298.
Canned(qtype) ==
  [source |-> "canned", has_text |-> TRUE, has_type |-> TRUE, qtype |-> qtype,
   has_choices |-> (qtype = "mcq"),
   flags |-> IF qtype = "mcq" THEN <<TRUE, FALSE, FALSE, FALSE>> ELSE <<>>,
   has_ca |-> (qtype = "short_answer"), has_kp |-> (qtype = "long_answer"),
   defect |-> "none"]

\* fallback_questions before filling, lines 268-298.
FallbackBase(test_type) ==
  (IF test_type \in {"mcq", "mixed"} THEN <<Canned("mcq")>> ELSE <<>>)
  \o (IF test_type \in {"short_answer", "mixed"} THEN <<Canned("short_answer")>> ELSE <<>>)
  \o (IF test_type \in {"long_answer", "mixed"} THEN <<Canned("long_answer")>> ELSE <<>>)

Range(f) == { f[i] : i \in DOMAIN f }

\* The lists the fill loop can build (lines 301-302): random.choice draws a
\* copy of a question already in the list, that is, of a base question.
FallbackFilled(test_type, num_questions) ==
  LET base == FallbackBase(test_type) IN
  IF Len(base) >= num_questions THEN {base}
  ELSE { base \o fill : fill \in [1..(num_questions - Len(base)) -> Range(base)] }

\* A variant that returns the filled list without cutting it.
FallbackUncut(test_type, num_questions) == FallbackFilled(test_type, num_questions)

\* _generate_fallback_questions: fallback_questions[:num_questions], line 304.
FallbackQuestions(test_type, num_questions) ==
  { SubSeq(l, 1, num_questions) : l \in FallbackFilled(test_type, num_questions) }

\* generate_questions, lines 52-64, once the preconditions of lines 40-44 have
\* passed: the lists it can return for a response of the LLM.
GenerateQuestions(test_type, num_questions, resp) ==
  IF CallOrParseRaises(resp)
  THEN FallbackQuestions(test_type, num_questions)
  ELSE {ValidatedQuestions(resp.items)}

\* generate_questions, lines 40-44: it raises ValueError.
GenerateRaises(api_key, text) == ~api_key \/ text \in {"empty", "short"}

NoCall == [raised |-> FALSE, called |-> FALSE, questions |-> <<>>]

GeneratorInit ==
  /\ gen_in \in [test_type : TestTypes, num_questions : 1..MaxCount,
                 api_key : BOOLEAN, text : {"short", "long"},
                 resp : Responses(MaxItems)]
  /\ gen_out = NoCall

\* AIService.generate_questions(material_text, test_type, num_questions).
CallGenerate ==
  /\ ~gen_out.called
  /\ IF GenerateRaises(gen_in.api_key, gen_in.text)
     THEN gen_out' = [raised |-> TRUE, called |-> TRUE, questions |-> <<>>]
     ELSE \E qs \in GenerateQuestions(gen_in.test_type, gen_in.num_questions, gen_in.resp) :
            gen_out' = [raised |-> FALSE, called |-> TRUE, questions |-> qs]
  /\ UNCHANGED <<gen_in, matVars, flowVars, restVars>>


(***************************************************************************)
(* Part 3: TestService.create_test and the generation loop.                *)
(***************************************************************************)

\* The materials table as the generation loop sees it: what
\* _extract_material_content returns for a material id, or that no row has it.
MaterialText(material_id) ==
  CASE material_id = 1 -> "long"     \* at least 100 characters
    [] material_id = 2 -> "short"    \* fewer than 100 characters
    [] material_id = 3 -> "empty"    \* no content_text and no readable file
    [] OTHER -> "missing"            \* no such row

FlowMaterialIds == {1, 2, 3, 4}

MaterialIdLists == UNION { [1..k -> FlowMaterialIds] : k \in 0..2 }

McqOne == Item(TRUE, TRUE, "mcq", TRUE, <<FALSE, TRUE>>, FALSE, FALSE, "none")
McqTwo == Item(TRUE, TRUE, "mcq", TRUE, <<TRUE, TRUE>>, FALSE, FALSE, "none")
McqNone == Item(TRUE, TRUE, "mcq", TRUE, <<FALSE, FALSE>>, FALSE, FALSE, "none")
ShortOk == Item(TRUE, TRUE, "short_answer", FALSE, <<>>, TRUE, FALSE, "none")
LongOk == Item(TRUE, TRUE, "long_answer", FALSE, <<>>, FALSE, TRUE, "none")
NullText == Item(TRUE, TRUE, "mcq", TRUE, <<TRUE, FALSE>>, FALSE, FALSE, "null_text")
NullChoice == Item(TRUE, TRUE, "mcq", TRUE, <<TRUE, FALSE>>, FALSE, FALSE, "null_choice_text")

\* The LLM responses the flow is run against.
FlowResponses ==
  { Response("network_error", <<>>),
    Response("array", <<>>),
    Response("array", <<McqOne>>),
    Response("array", <<McqTwo, ShortOk>>),
    Response("array", <<LongOk, McqNone>>),
    Response("array", <<McqOne, NullText, McqOne>>),
    Response("array", <<ShortOk, NullChoice, LongOk>>) }

\* _save_question, lines 166-202: the Question row and its choices.
SavedRow(q, material_id) ==
  LET question_type == IF q.has_type THEN q.qtype ELSE "mcq" IN
  [question_type |-> question_type,
   choices |-> IF question_type = "mcq" /\ q.has_choices THEN q.flags ELSE <<>>,
   material_id |-> material_id,
   source |-> q.source]

\* How _save_question ends for a question: the flush of line 192 rejects a
\* null question_text and leaves the session unusable until a rollback; the
\* commit of line 204 rejects a null choice text and rolls the question back.
SaveOutcome(q) ==
  IF q.defect = "null_text" THEN "flush_failed"
  ELSE IF q.defect = "null_choice_text" /\ q.has_type /\ q.qtype = "mcq" /\ q.has_choices
       THEN "commit_failed"
       ELSE "saved"

\* A variant that counts the questions the generator returned.
CountReturned(total, saved, returned) == total + returned

\* generate_questions_from_materials, lines 116-118: total_questions counts
\* each question after its save.
CountAfterSave(total, saved, returned) == total + saved

\* The loop of lines 116-118 over the questions of one material; an exception
\* of _save_question leaves the loop (line 120).
RECURSIVE SaveQuestions(_, _, _)
SaveQuestions(qs, material_id, acc) ==
  IF qs = <<>> THEN acc
  ELSE IF SaveOutcome(Head(qs)) # "saved"
       THEN [acc EXCEPT !.status = SaveOutcome(Head(qs))]
       ELSE SaveQuestions(Tail(qs), material_id,
              [acc EXCEPT !.rows = Append(@, SavedRow(Head(qs), material_id)),
                          !.saved = @ + 1])

\* Line 103: max(1, num_questions // len(material_ids)).
QuestionsPerMaterial(num_questions, n_materials) ==
  IF num_questions \div n_materials >= 1 THEN num_questions \div n_materials ELSE 1

\* A variant in which a raising generator ends the loop.
LoopAborts(outcome) == outcome # "gen_raised"

\* Lines 92-94, 98-100 and 120-122: after a material that yields nothing the
\* loop goes on with the next material.
LoopContinues(outcome) == TRUE

NoRun == [test_type |-> "mcq", material_ids |-> <<>>, num_questions |-> 0,
          idx |-> 0, total |-> 0, session_ok |-> TRUE]

FlowInit ==
  /\ f_api_key \in BOOLEAN
  /\ db_test = None
  /\ db_questions = <<>>
  /\ fpc = "idle"
  /\ run = NoRun
  /\ flog = <<>>
  /\ fres = "none"

\* create_test, lines 33-61, up to the call of
\* generate_questions_from_materials; without material ids it returns here.
CreateTest(test_type, material_ids, num_questions) ==
  /\ fpc = "idle"
  /\ db_test' = Some([test_type |-> test_type, total_questions |-> 0])
  /\ run' = [test_type |-> test_type, material_ids |-> material_ids,
             num_questions |-> num_questions, idx |-> 1, total |-> 0,
             session_ok |-> TRUE]
  /\ IF material_ids = <<>>
     THEN fpc' = "done" /\ fres' = "returned"
     ELSE fpc' = "loop" /\ fres' = "none"
  /\ UNCHANGED <<f_api_key, db_questions, flog, matVars, genVars, restVars>>

\* What one iteration of the loop of lines 90-122 does for the material at
\* run.idx, for a response of the LLM and a list the generator returns.
Iteration(material_id, resp, qs) ==
  LET text == MaterialText(material_id)
      nothing == [rows |-> <<>>, saved |-> 0, status |-> "ok"]
  IN
  IF text = "missing" THEN [outcome |-> "missing", returned |-> 0, sv |-> nothing]
  ELSE IF text = "empty" THEN [outcome |-> "no_text", returned |-> 0, sv |-> nothing]
  ELSE IF GenerateRaises(f_api_key, text)
       THEN [outcome |-> "gen_raised", returned |-> 0, sv |-> nothing]
       ELSE LET sv == SaveQuestions(qs, material_id, nothing) IN
            [outcome |-> IF sv.status = "ok" THEN "generated" ELSE sv.status,
             returned |-> Len(qs), sv |-> sv]

\* create_test's end, lines 55-61: the except clause swallows what
\* generate_questions_from_materials raised, the refresh needs a usable session.
CreateTestEnds(session_ok) == IF session_ok THEN "returned" ELSE "raised"

\* One iteration of the loop and, after the last material, lines 124-128 and
\* the return of create_test.
GenStep(resp, qs) ==
  /\ fpc = "loop"
  /\ LET material_id == run.material_ids[run.idx]
         it == Iteration(material_id, resp, qs)
         total == CountAfterSave(run.total, it.sv.saved, it.returned)
         ok == it.sv.status # "flush_failed"
         last_one == run.idx = Len(run.material_ids)
         stop == last_one \/ ~ok \/ ~LoopContinues(it.outcome)
     IN
     /\ db_questions' = db_questions \o it.sv.rows
     /\ flog' = Append(flog, [material_id |-> material_id, outcome |-> it.outcome,
                              returned |-> it.returned, saved |-> it.sv.saved])
     /\ run' = [run EXCEPT !.idx = @ + 1, !.total = total, !.session_ok = ok]
     /\ db_test' = IF last_one /\ ok /\ LoopContinues(it.outcome)
                   THEN Some([Row1(db_test) EXCEPT !.total_questions = total])
                   ELSE db_test
     /\ fpc' = IF stop THEN "done" ELSE "loop"
     /\ fres' = IF stop THEN CreateTestEnds(ok) ELSE "none"
  /\ UNCHANGED <<f_api_key, matVars, genVars, restVars>>

\* The iterations the loop can take next: a material that reaches the
\* generator draws a response; the others draw none.
FlowStep ==
  /\ fpc = "loop"
  /\ LET text == MaterialText(run.material_ids[run.idx])
         quota == QuestionsPerMaterial(run.num_questions, Len(run.material_ids))
     IN
     IF text \in {"missing", "empty"} \/ GenerateRaises(f_api_key, text)
     THEN GenStep(Response("array", <<>>), <<>>)
     ELSE \E resp \in FlowResponses :
            \E qs \in GenerateQuestions(run.test_type, quota, resp) : GenStep(resp, qs)

\* TestService.delete_test, lines 221-231: the questions go with the test.
DeleteTest ==
  /\ fpc = "done"
  /\ db_test # None
  /\ db_test' = None
  /\ db_questions' = <<>>
  /\ UNCHANGED <<f_api_key, fpc, run, flog, fres, matVars, genVars, restVars>>

(***************************************************************************)
(* Part 4: AIService.evaluate_answer.                                      *)
(*                                                                         *)
(* Points are integers and the awards are points times 0.3, 0.5, 0.7, 0.8 *)
(* or 1: an award is kept in tenths of a point, so that it stays an        *)
(* integer. The thresholds compare integers with multiples of a tenth and  *)
(* are compared exactly (the float products and quotients of the code      *)
(* agree with the exact ones for the sizes used here).                     *)
(***************************************************************************)

\* A student's answer as evaluate_answer sees it:
\*   kind      "empty" (''), "blank" (only whitespace) or "text"
\*   matched   how many keywords of the expected answer occur in it
\*   covered   which key points of the question occur in it
\*   selected  the choice index it names (MCQ)
StudentText(kind, matched, covered, selected) ==
  [kind |-> kind, matched |-> matched, covered |-> covered, selected |-> selected]

EmptyText == StudentText("empty", 0, {}, -1)
BlankText == StudentText("blank", 0, {}, -1)

\* The question dictionary: type, points, the choices' is_correct flags,
\* the number of keywords of correct_answer that are not stop words, and the
\* number of key_points.
QuestionData(question_type, points, flags, n_keywords, n_key_points) ==
  [question_type |-> question_type, points |-> points, flags |-> flags,
   n_keywords |-> n_keywords, n_key_points |-> n_key_points]

EvalResult(is_correct, tenths, feedback) ==
  [is_correct |-> is_correct, tenths |-> tenths, feedback |-> feedback]

\* return False, 0, "No answer provided."
NoAnswerProvided == EvalResult(FALSE, 0, "No answer provided.")

\* not student_answer.strip()
IsBlank(answer) == answer.kind \in {"empty", "blank"}

\* evaluate_answer, lines 320-331: the MCQ branch looks the answer up as a
\* choice index; it has no test for an empty answer.
McqResult(question, answer) ==
  IF answer.kind = "text" /\ answer.selected \in 0..(Len(question.flags) - 1)
  THEN LET is_correct == question.flags[answer.selected + 1] IN
       EvalResult(is_correct,
                  IF is_correct THEN question.points * 10 ELSE 0,
                  IF is_correct THEN "Correct!" ELSE "Incorrect.")
  ELSE EvalResult(FALSE, 0, "Invalid choice selection.")

\* evaluate_answer, lines 347-352: matched_keywords > len(keywords) * 0.7,
\* then > len(keywords) * 0.4.
ShortTier(points, matched, n_keywords) ==
  IF matched * 10 > n_keywords * 7
  THEN EvalResult(TRUE, points * 10, "Good answer!")
  ELSE IF matched * 10 > n_keywords * 4
       THEN EvalResult(TRUE, points * 5, "Partially correct.")
       ELSE EvalResult(FALSE, 0, "Incorrect answer.")

\* evaluate_answer, lines 334-356.
ShortResult(question, answer, api_key) ==
  IF IsBlank(answer) THEN NoAnswerProvided
  ELSE IF ~api_key THEN ShortTier(question.points, answer.matched, question.n_keywords)
  ELSE EvalResult(TRUE, question.points * 8,
                  "Answer evaluated (AI grading not yet implemented).")

\* A variant whose middle tiers are exchanged.
LongTierSwapped(points, points_covered, n_key_points) ==
  IF n_key_points > 0 /\ points_covered * 10 >= n_key_points * 8
  THEN EvalResult(TRUE, points * 10, "Excellent answer covering most key points.")
  ELSE IF n_key_points > 0 /\ points_covered * 10 >= n_key_points * 5
       THEN EvalResult(TRUE, points * 3, "Good answer covering some key points.")
       ELSE IF n_key_points > 0 /\ points_covered > 0
            THEN EvalResult(TRUE, points * 7, "Partial answer with few key points.")
            ELSE EvalResult(FALSE, 0, "Answer does not cover any key points.")

\* evaluate_answer, lines 371-380: coverage_ratio = points_covered /
\* len(key_points) if key_points else 0, then the four tiers.
LongTier(points, points_covered, n_key_points) ==
  IF n_key_points > 0 /\ points_covered * 10 >= n_key_points * 8
  THEN EvalResult(TRUE, points * 10, "Excellent answer covering most key points.")
  ELSE IF n_key_points > 0 /\ points_covered * 10 >= n_key_points * 5
       THEN EvalResult(TRUE, points * 7, "Good answer covering some key points.")
       ELSE IF n_key_points > 0 /\ points_covered > 0
            THEN EvalResult(TRUE, points * 3, "Partial answer with few key points.")
            ELSE EvalResult(FALSE, 0, "Answer does not cover any key points.")

\* evaluate_answer, lines 359-380.
LongResult(question, answer) ==
  IF IsBlank(answer) THEN NoAnswerProvided
  ELSE LongTier(question.points,
                Cardinality(answer.covered \cap (1..question.n_key_points)),
                question.n_key_points)

\* AIService.evaluate_answer(question, student_answer).
EvaluateAnswer(question, answer, api_key) ==
  CASE question.question_type = "mcq" -> McqResult(question, answer)
    [] question.question_type = "short_answer" -> ShortResult(question, answer, api_key)
    [] question.question_type = "long_answer" -> LongResult(question, answer)
    [] OTHER -> EvalResult(FALSE, 0, "Unable to evaluate this answer type.")

\* The questions and, for each, the answers the evaluator is run against.
EvalQuestions ==
  { QuestionData("mcq", p, f, 0, 0) :
      p \in 1..MaxPoints, f \in {<<TRUE, FALSE>>, <<FALSE, TRUE, FALSE>>} }
  \cup { QuestionData("short_answer", p, <<>>, n, 0) : p \in 1..MaxPoints, n \in 0..MaxKeywords }
  \cup { QuestionData("long_answer", p, <<>>, 0, k) : p \in 1..MaxPoints, k \in 0..MaxKeyPoints }

AnswersTo(question) ==
  {EmptyText, BlankText}
  \cup CASE question.question_type = "mcq" ->
             { StudentText("text", 0, {}, i) : i \in 0..Len(question.flags) }
          [] question.question_type = "short_answer" ->
             { StudentText("text", m, {}, -1) : m \in 0..question.n_keywords }
          [] OTHER ->
             { StudentText("text", 0, c, -1) : c \in SUBSET (1..question.n_key_points) }

EvaluatorInit ==
  /\ \E q \in EvalQuestions, k \in BOOLEAN :
       \E a1 \in AnswersTo(q), a2 \in AnswersTo(q) :
         ev_in = [question |-> q, answers |-> <<a1, a2>>, api_key |-> k]
  /\ ev_out = <<None, None>>

\* evaluate_answer is called for the i-th answer.
CallEvaluate(i) ==
  /\ ev_out[i] = None
  /\ ev_out' = [ev_out EXCEPT
                  ![i] = Some(EvaluateAnswer(ev_in.question, ev_in.answers[i], ev_in.api_key))]
  /\ UNCHANGED <<ev_in, matVars, genVars, flowVars, attVars, ckVars>>

(***************************************************************************)
(* Part 5: test attempts (start_test_attempt, submit_answer,               *)
(* complete_test_attempt). points_awarded, score and max_score are kept in *)
(* tenths of a point, as the evaluator's awards are.                       *)
(***************************************************************************)

\* The tests and questions the attempts are made on. Tests 1 and 2 exist.
\* meta_ok is FALSE for a question whose stored metadata makes evaluate_answer
\* raise (key_points that are not strings: point.lower() fails).
AttemptTests == {1, 2}

QuestionRow(test_id, data, meta_ok) == [test_id |-> test_id, data |-> data, meta_ok |-> meta_ok]

QuestionTable ==
  <<QuestionRow(1, QuestionData("mcq", 1, <<TRUE, FALSE>>, 0, 0), TRUE),
    QuestionRow(1, QuestionData("short_answer", 2, <<>>, 2, 0), TRUE),
    QuestionRow(1, QuestionData("long_answer", 2, <<>>, 0, 2), FALSE),
    QuestionRow(2, QuestionData("short_answer", 2, <<>>, 2, 0), TRUE)>>

QuestionIds == DOMAIN QuestionTable

\* question_choices: the choices of question 1; no row has another id.
ChoiceTable ==
  <<[question_id |-> 1, is_correct |-> TRUE],
    [question_id |-> 1, is_correct |-> FALSE]>>

\* The ids start_test_attempt can give out: two attempts are made.
AttemptIds == {1, 2}

\* answer_data of a submission: selected_choice_id (absent, or an id that may
\* name no choice) and answer_text.
SelectedChoiceIds == {None, Some(1), Some(2), Some(3)}

AnswerTexts ==
  {EmptyText, BlankText, StudentText("text", 0, {}, -1), StudentText("text", 2, {1}, -1)}

\* The answer_data sent for a question: a choice id for an MCQ question, a
\* text for the others (submit_answer reads nothing else, lines 274 and 298).
AnswerData(question_id) ==
  IF QuestionTable[question_id].data.question_type = "mcq"
  THEN SelectedChoiceIds \X {EmptyText}
  ELSE {None} \X AnswerTexts

\* The users that call the attempt routes (g.user of login_required): alice
\* takes the tests, bob is another user who is logged in.
TestTakers == {"alice"}
Callers == {"alice", "bob"}

\* A variant that starts an attempt with a score of zero.
NewAttemptScored(test_id, user_id) ==
  [test_id |-> test_id, user_id |-> user_id,
   completed_at |-> None, score |-> Some(0), max_score |-> None]

\* TestAttempt(...) of start_test_attempt, lines 240-244.
NewAttempt(test_id, user_id) ==
  [test_id |-> test_id, user_id |-> user_id,
   completed_at |-> None, score |-> None, max_score |-> None]

\* A variant that gives the question's points for any choice.
McqAnswerLenient(attempt_id, question_id, selected_choice_id) ==
  [attempt_id |-> attempt_id, question_id |-> question_id,
   answer_text |-> None, selected_choice_id |-> Some(selected_choice_id),
   is_correct |-> Some(ChoiceTable[selected_choice_id].is_correct),
   points_awarded |-> Some(QuestionTable[question_id].data.points * 10),
   feedback |-> Some("explanation")]

\* StudentAnswer(...) of submit_answer, lines 288-295.
McqAnswer(attempt_id, question_id, selected_choice_id) ==
  LET choice == ChoiceTable[selected_choice_id] IN
  [attempt_id |-> attempt_id, question_id |-> question_id,
   answer_text |-> None, selected_choice_id |-> Some(selected_choice_id),
   is_correct |-> Some(choice.is_correct),
   points_awarded |-> Some(IF choice.is_correct
                           THEN QuestionTable[question_id].data.points * 10 ELSE 0),
   feedback |-> Some("explanation")]

\* StudentAnswer(...) of submit_answer, lines 304-311.
TextAnswer(attempt_id, question_id, answer_text) ==
  [attempt_id |-> attempt_id, question_id |-> question_id,
   answer_text |-> Some(answer_text), selected_choice_id |-> None,
   is_correct |-> None, points_awarded |-> None, feedback |-> None]

\* submit_answer, lines 264-301: the ValueError exits.
SubmitRaises(attempt_id, question_id, selected, answer_text) ==
  \/ attempts[attempt_id] = None
  \/ question_id \notin QuestionIds
  \/ /\ QuestionTable[question_id].data.question_type = "mcq"
     /\ \/ selected = None
        \/ \E c \in selected :
             c \notin DOMAIN ChoiceTable \/ ChoiceTable[c].question_id # question_id
  \/ /\ QuestionTable[question_id].data.question_type # "mcq"
     /\ answer_text.kind = "empty"

\* _evaluate_answer, lines 366-404, as the new values of the answer row.
ServiceEvaluate(answer, question) ==
  IF answer.answer_text = None \/ answer.answer_text = Some(EmptyText)
  THEN [answer EXCEPT !.is_correct = Some(FALSE), !.points_awarded = Some(0),
                      !.feedback = Some("No answer provided.")]
  ELSE IF question.meta_ok
       THEN LET r == EvaluateAnswer(question.data, Row1(answer.answer_text), a_api_key) IN
            [answer EXCEPT !.is_correct = Some(r.is_correct),
                           !.points_awarded = Some(r.tenths),
                           !.feedback = Some(r.feedback)]
       ELSE [answer EXCEPT !.points_awarded = Some(question.data.points * 5),
                           !.feedback = Some("automatically scored")]

\* A variant that evaluates every answer of the attempt again.
NeedsEvaluationAlways(answer) == TRUE

\* complete_test_attempt, line 335.
NeedsEvaluation(answer) == answer.is_correct = None /\ answer.points_awarded = None

\* complete_test_attempt, lines 334-338, for one answer of the attempt.
EvaluatedAnswer(answer, test_id) ==
  IF /\ NeedsEvaluation(answer)
     /\ QuestionTable[answer.question_id].test_id = test_id
  THEN ServiceEvaluate(answer, QuestionTable[answer.question_id])
  ELSE answer

RECURSIVE SumSeq(_)
SumSeq(seq) == IF seq = <<>> THEN 0 ELSE Head(seq) + SumSeq(Tail(seq))

\* sum(q.points for q in questions), line 341.
TotalPoints(test_id) ==
  SumSeq([q \in QuestionIds |->
            IF QuestionTable[q].test_id = test_id THEN QuestionTable[q].data.points * 10 ELSE 0])

\* sum(a.points_awarded or 0 for a in answers), line 342.
EarnedPoints(rows, attempt_id) ==
  SumSeq([i \in DOMAIN rows |->
            IF rows[i].attempt_id = attempt_id /\ rows[i].points_awarded # None
            THEN Row1(rows[i].points_awarded) ELSE 0])

\* The call that ended last: the route, its attempt_id, the calling user,
\* how it ended, and whether it completed an attempt completed before.
ALast(op, attempt_id, caller, result, again) ==
  [op |-> op, attempt_id |-> attempt_id, caller |-> caller, result |-> result,
   again |-> again]

AttemptInit ==
  /\ a_api_key \in BOOLEAN
  /\ attempts = [a \in AttemptIds |-> None]
  /\ answers = <<>>
  /\ a_last = ALast("none", 0, "none", "none", FALSE)

\* POST /<test_id>/attempt by user_id: TestService.start_test_attempt(test_id,
\* user_id).
StartAttempt(test_id, user_id) ==
  /\ \E a \in AttemptIds :
       /\ attempts[a] = None
       /\ \A b \in AttemptIds : b < a => attempts[b] # None
       /\ IF test_id \in AttemptTests
          THEN /\ attempts' = [attempts EXCEPT ![a] = Some(NewAttempt(test_id, user_id))]
               /\ a_last' = ALast("start", a, user_id, "returned", FALSE)
          ELSE /\ a_last' = ALast("start", 0, user_id, "raised", FALSE)
               /\ UNCHANGED attempts
  /\ UNCHANGED <<a_api_key, answers, matVars, genVars, flowVars, evVars, ckVars>>

\* POST /attempts/<attempt_id>/submit by caller:
\* TestService.submit_answer(attempt_id, question_id, answer_data). The route
\* does not pass g.user on.
SubmitAnswer(caller, attempt_id, question_id, selected, answer_text) ==
  /\ Len(answers) < MaxAnswers
  /\ IF SubmitRaises(attempt_id, question_id, selected, answer_text)
     THEN /\ a_last' = ALast("submit", attempt_id, caller, "raised", FALSE)
          /\ UNCHANGED answers
     ELSE /\ answers' = Append(answers,
                 IF QuestionTable[question_id].data.question_type = "mcq"
                 THEN McqAnswer(attempt_id, question_id, Row1(selected))
                 ELSE TextAnswer(attempt_id, question_id, answer_text))
          /\ a_last' = ALast("submit", attempt_id, caller, "returned", FALSE)
  /\ UNCHANGED <<a_api_key, attempts, matVars, genVars, flowVars, evVars, ckVars>>

\* POST /attempts/<attempt_id>/complete by caller:
\* TestService.complete_test_attempt(attempt_id). The route does not pass
\* g.user on.
CompleteAttempt(caller, attempt_id) ==
  /\ IF attempts[attempt_id] = None
     THEN /\ a_last' = ALast("complete", attempt_id, caller, "raised", FALSE)
          /\ UNCHANGED <<attempts, answers>>
     ELSE LET attempt == Row1(attempts[attempt_id])
              rows == [i \in DOMAIN answers |->
                         IF answers[i].attempt_id = attempt_id
                         THEN EvaluatedAnswer(answers[i], attempt.test_id)
                         ELSE answers[i]]
          IN
          /\ answers' = rows
          /\ attempts' = [attempts EXCEPT ![attempt_id] =
                 Some([attempt EXCEPT !.completed_at = Some("now"),
                                      !.max_score = Some(TotalPoints(attempt.test_id)),
                                      !.score = Some(EarnedPoints(rows, attempt_id))])]
          /\ a_last' = ALast("complete", attempt_id, caller, "returned",
                              attempt.completed_at # None)
  /\ UNCHANGED <<a_api_key, matVars, genVars, flowVars, evVars, ckVars>>

(***************************************************************************)
(* Part 6: the text chunker (TextProcessor.chunk_text). A word is its      *)
(* length in characters. A sentence, as sent_tokenize returns it, is its   *)
(* words and its length: the words, one separator between two words, and   *)
(* pad further whitespace characters (runs of blanks, line breaks). A      *)
(* chunk is the sequence of the pieces (sentences or words) that           *)
(* " ".join puts together. A text is its sentences and blank, the number   *)
(* of whitespace characters it has besides those inside the sentences and  *)
(* one separator between two sentences (sent_tokenize drops them).         *)
(***************************************************************************)

\* The words are short (1 character) or long (5 characters); a sentence has
\* 0, 1 or 2 further whitespace characters.
WordLens == {1, 5}
Pads == {0, 1, 2}

Piece(words, len) == [words |-> words, len |-> len]

\* A sentence of the text: len(sentence) counts the whitespace inside it.
Sentence(words, pad) == Piece(words, SumSeq(words) + Len(words) - 1 + pad)

\* A word of sentence.split().
WordPiece(word) == Piece(<<word>>, word)

\* len(" ".join(pieces)).
JoinLen(pieces) ==
  IF pieces = <<>> THEN 0
  ELSE SumSeq([i \in DOMAIN pieces |-> pieces[i].len]) + Len(pieces) - 1

\* chunks.append({"text": " ".join(chunk)}) under `if chunk:`.
Flushed(chunks, chunk) == IF chunk # <<>> THEN Append(chunks, chunk) ELSE chunks

\* A variant that does not count the separator of a word.
WordLenBare(word) == word

\* word_len = len(word) + 1, line 62.
WordLen(word) == word + 1

\* The loop over the words of a sentence longer than max_chunk_size,
\* lines 61-78.
RECURSIVE SplitLoop(_, _, _, _, _)
SplitLoop(words, chunks, temp_chunk, temp_size, max_chunk_size) ==
  IF words = <<>>
  THEN Flushed(chunks, temp_chunk)
  ELSE LET word == Head(words)
           word_len == WordLen(word)
       IN IF temp_size + word_len > max_chunk_size
          THEN SplitLoop(Tail(words), Flushed(chunks, temp_chunk),
                         <<WordPiece(word)>>, word_len, max_chunk_size)
          ELSE SplitLoop(Tail(words), chunks,
                         Append(temp_chunk, WordPiece(word)), temp_size + word_len,
                         max_chunk_size)

\* A variant that repeats the last sentence of the finished chunk.
NewChunkOverlapping(current_chunk, sentence) ==
  IF current_chunk = <<>> THEN <<sentence>>
  ELSE <<current_chunk[Len(current_chunk)], sentence>>

\* current_chunk = [sentence], line 91.
NewChunk(current_chunk, sentence) == <<sentence>>

\* The loop over the sentences and the final flush, lines 43-100.
RECURSIVE SentenceLoop(_, _, _, _, _)
SentenceLoop(sentences, chunks, current_chunk, current_chunk_size, max_chunk_size) ==
  IF sentences = <<>>
  THEN Flushed(chunks, current_chunk)
  ELSE LET sentence == Head(sentences)
           sentence_len == sentence.len
       IN IF sentence_len > max_chunk_size
          THEN SentenceLoop(Tail(sentences),
                            SplitLoop(sentence.words, Flushed(chunks, current_chunk),
                                      <<>>, 0, max_chunk_size),
                            <<>>, 0, max_chunk_size)
          ELSE IF current_chunk_size + sentence_len + 1 <= max_chunk_size
               THEN SentenceLoop(Tail(sentences), chunks,
                                 Append(current_chunk, sentence),
                                 current_chunk_size + sentence_len + 1, max_chunk_size)
               ELSE SentenceLoop(Tail(sentences), Flushed(chunks, current_chunk),
                                 NewChunk(current_chunk, sentence), sentence_len,
                                 max_chunk_size)

\* A variant that returns one chunk of whitespace for a text without sentences.
ChunkBlank(sentences, blank, max_chunk_size, overlap) ==
  IF sentences = <<>> /\ blank > 0
  THEN <<(<<Piece(<<>>, blank)>>)>>
  ELSE SentenceLoop(sentences, <<>>, <<>>, 0, max_chunk_size)

\* chunk_text(text, max_chunk_size=..., overlap=...): _chunk_by_semantic on
\* sent_tokenize(text); overlap is passed on and never read.
ChunkText(sentences, blank, max_chunk_size, overlap) ==
  SentenceLoop(sentences, <<>>, <<>>, 0, max_chunk_size)

\* len(text).
TextLen(sentences, blank) == JoinLen(sentences) + blank

\* The sequences of at most n elements of S.
SeqsUpTo(S, n) == UNION {[1..k -> S] : k \in 0..n}

\* The sentences sent_tokenize can return: at least one word each.
Sentences ==
  {Sentence(words, pad) : words \in SeqsUpTo(WordLens, MaxWords) \ {<<>>}, pad \in Pads}

Blanks == {0, 1}
Overlaps == {0, 2}

ChunkerInit ==
  /\ ck_in \in [text : SeqsUpTo(Sentences, MaxSentences), blank : Blanks,
                max_chunk_size : 0..MaxChunkSize, overlap : Overlaps]
  /\ ck_out = None

\* TextProcessor.chunk_text(text, max_chunk_size=n).
CallChunk ==
  /\ ck_out = None
  /\ ck_out' = Some(ChunkText(ck_in.text, ck_in.blank, ck_in.max_chunk_size, ck_in.overlap))
  /\ UNCHANGED <<ck_in, matVars, genVars, flowVars, evVars, attVars>>

(***************************************************************************)
(* Properties of part 1 (materials), stated over SpecMaterial.             *)
(***************************************************************************)

StatusOf(tbl, m) == Row1(tbl[m]).embedding_status

\* Position of a status along pending -> processing -> {completed, failed}.
Rank(status) ==
  CASE status = "pending" -> 0
    [] status = "processing" -> 1
    [] OTHER -> 2

\* Handler w ends its operation on material m in this step.
Ends(w, m) == pc[w] # "idle" /\ pc'[w] = "idle" /\ wm[w] = m

\* Handler w starts a run of process_material_for_vectors on m in this step.
StartsRun(w, m) ==
  pc[w] \in {"idle", "uploaded"} /\ pc'[w] = "proc_extract" /\ wm'[w] = m

\* C1 as stated: in every step, the embedding_status of every material only
\* moves forward along pending -> processing -> {completed, failed}; it never
\* goes from processing back to pending nor from completed or failed back to
\* processing.
C1_ForwardOnly ==
  [][\A m \in MatIds :
       (mat[m] # None /\ mat'[m] # None)
         => Rank(StatusOf(mat', m)) >= Rank(StatusOf(mat, m))]_vars

\* C1 as the code has it: the order holds inside one run only. Whenever a
\* material's embedding_status changes, it becomes "processing" exactly
\* because a handler starts a run on it (from any earlier status, completed
\* and failed included), it becomes "completed" or "failed" only because a
\* handler ends its operation on it, and it becomes "pending" only because an
\* upload_material without vector services ends.
C1_RunOrder ==
  [][\A m \in MatIds :
       (mat[m] # None /\ mat'[m] # None /\ StatusOf(mat', m) # StatusOf(mat, m))
         => LET b == StatusOf(mat', m) IN
            /\ b = "processing" => \E w \in Workers : StartsRun(w, m)
            /\ b \in {"completed", "failed"} => \E w \in Workers : Ends(w, m)
            /\ b = "pending" =>
                 \E w \in Workers : Ends(w, m) /\ wop[w] = "upload" /\ ~vector_configured]_vars

\* A material that was ingested before is being reprocessed: its status went
\* back to "processing".
C1_Witness ==
  \E m \in MatIds, w \in Workers :
    /\ mat[m] # None
    /\ Row(m).chunk_count # None
    /\ Row(m).embedding_status = "processing"
    /\ wop[w] \in {"process", "rebuild"} /\ wm[w] = m /\ pc[w] = "proc_extract"

\* C2 as stated: a run whose store_document reported failure does not leave
\* the material in "completed".
C2_CompletedOnlyIfStored ==
  [][\A w \in Workers :
       (pc[w] = "proc_store" /\ pc'[w] = "idle" /\ last'.cause = "store_failed"
          /\ mat'[wm[w]] # None)
         => StatusOf(mat', wm[w]) # "completed"]_vars

\* C3: a new row has neither chunk_count nor chroma_collection_id, and a step
\* changes either field of a material only when it leaves the material in
\* "completed"; a run that ends in "failed" leaves both as they were.
C3_FieldsOnlyOnCompletion ==
  [][\A m \in MatIds :
       /\ (mat[m] = None /\ mat'[m] # None)
            => /\ Row1(mat'[m]).chunk_count = None
               /\ Row1(mat'[m]).chroma_collection_id = None
       /\ (mat[m] # None /\ mat'[m] # None)
            => /\ (\/ Row1(mat'[m]).chunk_count # Row(m).chunk_count
                   \/ Row1(mat'[m]).chroma_collection_id # Row(m).chroma_collection_id)
                    => StatusOf(mat', m) = "completed"
               /\ (StatusOf(mat', m) = "failed" /\ \E w \in Workers : Ends(w, m))
                    => /\ Row1(mat'[m]).chunk_count = Row(m).chunk_count
                       /\ Row1(mat'[m]).chroma_collection_id = Row(m).chroma_collection_id]_vars

\* A rerun failed on a material that an earlier run had completed: the
\* material is "failed" and still carries the earlier run's fields.
C3_Witness ==
  \E m \in MatIds :
    /\ mat[m] # None
    /\ Row(m).embedding_status = "failed"
    /\ Row(m).chunk_count # None
    /\ Row(m).chroma_collection_id # None
    /\ last.result = "false"

\* C4 as stated: an upload_material that ends on an extraction failure (PDF
\* metadata, or the extraction step of the vector stage) leaves the material
\* "failed" with an error message and raises.
C4_ExtractionFailureRaises ==
  [][\A w \in Workers :
       (wop[w] = "upload" /\ pc[w] # "idle" /\ pc'[w] = "idle"
          /\ last'.cause \in {"pdf_error", "extract_error"} /\ mat'[wm[w]] # None)
         => /\ StatusOf(mat', wm[w]) = "failed"
            /\ Row1(mat'[wm[w]]).error_message # None
            /\ last'.result = "raised"]_vars

\* C4 as the code has it: the material ends "failed" with an error message in
\* both cases; upload_material raises for a PDF metadata failure and returns
\* the material normally for a failure in the vector stage.
C4_ExtractionFailureRecorded ==
  [][\A w \in Workers :
       (wop[w] = "upload" /\ pc[w] # "idle" /\ pc'[w] = "idle"
          /\ last'.cause \in {"pdf_error", "extract_error"} /\ mat'[wm[w]] # None)
         => /\ StatusOf(mat', wm[w]) = "failed"
            /\ Row1(mat'[wm[w]]).error_message # None
            /\ last'.cause = "pdf_error" => last'.result = "raised"
            /\ last'.cause = "extract_error" => last'.result = "returned"]_vars

\* An upload has just returned normally although the extraction step of its
\* vector stage failed.
C4_Witness ==
  /\ last = [result |-> "returned", cause |-> "extract_error"]
  /\ \E m \in MatIds :
       /\ mat[m] # None
       /\ Row(m).embedding_status = "failed"
       /\ Row(m).error_message = Some("extract_error")

\* C5 as stated: when the DELETE route removes a material whose
\* chroma_collection_id is set, the stored file and the vector collection are
\* gone afterwards.
C5_DeleteRemovesAll ==
  [][\A m \in MatIds :
       (mat[m] # None /\ mat'[m] = None /\ Row(m).chroma_collection_id # None)
         => /\ files'[Row(m).file_path] = None
            /\ Row(m).chroma_collection_id \cap chroma' = {}]_vars

\* C23 as stated: once a material's chroma_collection_id is set, no step
\* changes it while the material exists, and the vector store never holds
\* two collections of one material.
C23_CollectionIdStable ==
  [][\A m \in MatIds :
       (mat[m] # None /\ mat'[m] # None /\ Row(m).chroma_collection_id # None)
         => /\ Row1(mat'[m]).chroma_collection_id = Row(m).chroma_collection_id
            /\ \A c1, c2 \in chroma' : (c1[1] = m /\ c2[1] = m) => c1 = c2]_vars

\* C30 as stated: a step leaves the stored file of every material that
\* exists before and after it as it was (there, with the same content).
C30_OtherFilesUnchanged ==
  [][\A m \in MatIds :
       (mat[m] # None /\ mat'[m] # None)
         => /\ files'[Row(m).file_path] = files[Row(m).file_path]
            /\ files'[Row(m).file_path] # None]_vars

(***************************************************************************)
(* Properties of part 2 (the generator), stated over SpecGenerator.        *)
(***************************************************************************)

\* The call is a well-formed request: credentials configured, a test type of
\* TestTypes, a count of at least 1, at least 100 characters of text.
WellFormedCall ==
  /\ gen_out.called
  /\ gen_in.api_key
  /\ gen_in.text = "long"
  /\ gen_in.test_type \in TestTypes
  /\ gen_in.num_questions >= 1

\* C6 as stated: a well-formed generate_questions call never returns an
\* empty list, whatever the LLM returned.
C6_NeverEmpty ==
  WellFormedCall => (~gen_out.raised /\ Len(gen_out.questions) >= 1)

\* C7: when the network call or the parse raises, a well-formed call does not
\* raise and returns exactly num_questions canned questions, each of a type
\* in the family of the requested test type.
C7_FallbackOnError ==
  (WellFormedCall /\ CallOrParseRaises(gen_in.resp))
    => /\ ~gen_out.raised
       /\ Len(gen_out.questions) = gen_in.num_questions
       /\ \A i \in 1..Len(gen_out.questions) :
            /\ gen_out.questions[i].source = "canned"
            /\ gen_out.questions[i].qtype \in Family(gen_in.test_type)

\* A mixed request for fewer questions than the three canned ones fell back
\* after a network error, and one for more than one question of a single
\* type fell back after an unparseable response.
C7_Witness ==
  /\ WellFormedCall
  /\ \/ /\ gen_in.resp.kind = "network_error"
        /\ gen_in.test_type = "mixed"
        /\ gen_in.num_questions = 2
        /\ Len(gen_out.questions) = 2
     \/ /\ gen_in.resp.kind = "unparseable"
        /\ gen_in.test_type = "short_answer"
        /\ gen_in.num_questions = MaxCount
        /\ Len(gen_out.questions) = MaxCount

\* C25 as stated: of the items of a parsed response, a short_answer item is
\* returned only if it carries correct_answer, a long_answer item only if it
\* carries key_points.
C25_OwnFieldRequired ==
  (WellFormedCall /\ ~CallOrParseRaises(gen_in.resp))
    => \A i \in 1..Len(gen_out.questions) :
         /\ gen_out.questions[i].qtype = "short_answer" => gen_out.questions[i].has_ca
         /\ gen_out.questions[i].qtype = "long_answer" => gen_out.questions[i].has_kp

\* C29 as stated, for generate_questions: a call never returns more than
\* num_questions questions.
C29_AtMostCount ==
  (gen_out.called /\ ~gen_out.raised)
    => Len(gen_out.questions) <= gen_in.num_questions

(***************************************************************************)
(* Properties of part 3 (create_test), stated over SpecTestFlow.           *)
(***************************************************************************)

RECURSIVE SumReturned(_, _)
SumReturned(log, material_id) ==
  IF log = <<>> THEN 0
  ELSE (IF Head(log).material_id = material_id THEN Head(log).returned ELSE 0)
       + SumReturned(Tail(log), material_id)

PersistedFor(material_id) ==
  Cardinality({ i \in 1..Len(db_questions) : db_questions[i].material_id = material_id })

\* The failures C8 is about.
GenerationFailures == {"missing", "no_text", "gen_raised"}

\* C8: when create_test has ended and every material either yielded its
\* questions or failed in generation (missing, no text, generator raising),
\* create_test returned without raising, every material of the list was
\* processed in order, and every question the generator returned for a
\* material is persisted.
C8_FailureDoesNotAbort ==
  (fpc = "done" /\ db_test # None
     /\ \A i \in 1..Len(flog) : flog[i].outcome \in GenerationFailures \cup {"generated"})
    => /\ fres = "returned"
       /\ Len(flog) = Len(run.material_ids)
       /\ \A i \in 1..Len(flog) :
            /\ flog[i].material_id = run.material_ids[i]
            /\ flog[i].saved = flog[i].returned
       /\ \A material_id \in FlowMaterialIds :
            PersistedFor(material_id) = SumReturned(flog, material_id)

\* The generator raised for the first material and the second one's
\* questions are persisted.
C8_Witness ==
  /\ fpc = "done" /\ fres = "returned" /\ db_test # None
  /\ Len(flog) = 2
  /\ flog[1].outcome = "gen_raised"
  /\ flog[2].outcome = "generated"
  /\ flog[2].saved >= 1
  /\ Len(db_questions) = flog[2].saved

C10_OneCorrectChoice ==
  \A i \in 1..Len(db_questions) :
    db_questions[i].question_type = "mcq"
      => Cardinality({ j \in 1..Len(db_questions[i].choices) : db_questions[i].choices[j] }) = 1

\* C11 as stated: every persisted question has a question_type in the family
\* of its test's declared type.
C11_TypeInFamily ==
  db_test # None
    => \A i \in 1..Len(db_questions) :
         db_questions[i].question_type \in Family(Row1(db_test).test_type)

\* C29 as stated, for create_test: the total_questions of a test created
\* with num_questions = n is at most n.
C29_TotalAtMostCount ==
  (fpc = "done" /\ fres = "returned" /\ db_test # None)
    => Row1(db_test).total_questions <= run.num_questions

(***************************************************************************)
(* Properties of part 4 (the evaluator), stated over SpecEvaluator.        *)
(***************************************************************************)

Evaluated(i) == ev_out[i] # None
ResultOf(i) == Row1(ev_out[i])

\* C13 as stated: without a grading service, a non-empty short answer that
\* holds a fraction f of the expected keywords gets full points when
\* f >= 0.7, half points when 0.4 <= f < 0.7, and zero when f < 0.4.
C13_InclusiveTiers ==
  \A i \in 1..2 :
    (/\ Evaluated(i)
     /\ ev_in.question.question_type = "short_answer"
     /\ ~ev_in.api_key
     /\ ~IsBlank(ev_in.answers[i])
     /\ ev_in.question.n_keywords > 0)
      => LET m == ev_in.answers[i].matched
             n == ev_in.question.n_keywords
             points == ev_in.question.points
         IN ResultOf(i).tenths =
              IF m * 10 >= n * 7 THEN points * 10
              ELSE IF m * 10 >= n * 4 THEN points * 5
              ELSE 0

\* The key points an answer covers; a blank answer covers none.
Covered(answer) ==
  IF IsBlank(answer) THEN {} ELSE answer.covered \cap (1..ev_in.question.n_key_points)

\* C14: for a long-answer question, an answer that covers a superset of the
\* key points another answer covers is awarded at least as many points.
C14_Monotone ==
  (/\ ev_in.question.question_type = "long_answer"
   /\ Evaluated(1) /\ Evaluated(2)
   /\ Covered(ev_in.answers[1]) \subseteq Covered(ev_in.answers[2]))
    => ResultOf(1).tenths <= ResultOf(2).tenths

\* Two answers to one long-answer question were evaluated, the second
\* covering strictly more key points, and both got a different non-zero award.
C14_Witness ==
  /\ ev_in.question.question_type = "long_answer"
  /\ Evaluated(1) /\ Evaluated(2)
  /\ Covered(ev_in.answers[1]) \subseteq Covered(ev_in.answers[2])
  /\ Covered(ev_in.answers[1]) # Covered(ev_in.answers[2])
  /\ 0 < ResultOf(1).tenths
  /\ ResultOf(1).tenths < ResultOf(2).tenths

\* C15 as stated: for every question type, an empty or whitespace-only
\* answer evaluates to (False, 0, "No answer provided.").
C15_BlankShortCircuits ==
  \A i \in 1..2 :
    (Evaluated(i) /\ IsBlank(ev_in.answers[i])) => ResultOf(i) = NoAnswerProvided

(***************************************************************************)
(* Properties of part 5 (attempts), stated over SpecAttempt.               *)
(***************************************************************************)

IsMcqAnswer(answer) == QuestionTable[answer.question_id].data.question_type = "mcq"

\* C12: an answer to an MCQ question is graded in the step that submits it,
\* and its grade is a function of the question and the selected choice:
\* is_correct is the choice's flag, points_awarded is the question's points
\* for a choice flagged correct and 0 for any other choice; no later call
\* changes it.
C12_McqGradedAtSubmission ==
  \A i \in 1..Len(answers) :
    IsMcqAnswer(answers[i])
      => LET choice == ChoiceTable[Row1(answers[i].selected_choice_id)]
             points == QuestionTable[answers[i].question_id].data.points
         IN /\ answers[i].selected_choice_id # None
            /\ choice.question_id = answers[i].question_id
            /\ answers[i].is_correct = Some(choice.is_correct)
            /\ answers[i].points_awarded = Some(IF choice.is_correct THEN points * 10 ELSE 0)

\* The correct and the wrong choice of one MCQ question were both submitted,
\* and the attempt has been completed since.
C12_Witness ==
  /\ a_last.op = "complete" /\ a_last.result = "returned"
  /\ \E i, j \in 1..Len(answers) :
       /\ IsMcqAnswer(answers[i]) /\ IsMcqAnswer(answers[j])
       /\ answers[i].attempt_id = a_last.attempt_id
       /\ answers[j].attempt_id = a_last.attempt_id
       /\ answers[i].question_id = answers[j].question_id
       /\ answers[i].is_correct = Some(TRUE) /\ answers[i].points_awarded # Some(0)
       /\ answers[j].is_correct = Some(FALSE) /\ answers[j].points_awarded = Some(0)

\* C16 as stated: when complete_test_attempt has returned for an attempt, no
\* answer of that attempt has a null points_awarded.
C16_NoNullGradeAfterCompletion ==
  (a_last.op = "complete" /\ a_last.result = "returned")
    => \A i \in 1..Len(answers) :
         answers[i].attempt_id = a_last.attempt_id => answers[i].points_awarded # None

\* C17 as stated: in every answer is_correct and points_awarded are both
\* null or both non-null.
C17_GradeFieldsTogether ==
  \A i \in 1..Len(answers) :
    (answers[i].is_correct = None) <=> (answers[i].points_awarded = None)

\* C18: an attempt that is not completed has a null score and a null
\* max_score; once complete_test_attempt has returned for an attempt, its
\* completed_at, score and max_score are all non-null.
C18_ScoreOnlyOnCompletion ==
  /\ \A a \in AttemptIds :
       (attempts[a] # None /\ Row1(attempts[a]).completed_at = None)
         => (Row1(attempts[a]).score = None /\ Row1(attempts[a]).max_score = None)
  /\ (a_last.op = "complete" /\ a_last.result = "returned")
       => LET attempt == Row1(attempts[a_last.attempt_id]) IN
          /\ attempt.completed_at # None
          /\ attempt.score # None
          /\ attempt.max_score # None

\* One attempt has just been completed while another, which already has a
\* graded answer, is still open.
C18_Witness ==
  /\ a_last.op = "complete" /\ a_last.result = "returned"
  /\ Row1(attempts[a_last.attempt_id]).score # None
  /\ \E a \in AttemptIds :
       /\ attempts[a] # None
       /\ Row1(attempts[a]).completed_at = None
       /\ \E i \in 1..Len(answers) :
            answers[i].attempt_id = a /\ answers[i].points_awarded # None

\* C19: a call of complete_test_attempt leaves every answer that already
\* has a grade as it was (is_correct, points_awarded and feedback), and
\* changes only answers of its attempt whose grade was null.
C19_GradedAnswersKept ==
  [][a_last'.op = "complete"
       => /\ Len(answers') = Len(answers)
          /\ \A i \in 1..Len(answers) :
               (answers[i].points_awarded # None \/ answers[i].attempt_id # a_last'.attempt_id)
                 => answers'[i] = answers[i]]_vars

\* complete_test_attempt was invoked again on a completed attempt that has
\* an MCQ answer graded at submission, and an answer graded by the first
\* completion.
C19_Witness ==
  /\ a_last.op = "complete" /\ a_last.result = "returned" /\ a_last.again
  /\ \E i, j \in 1..Len(answers) :
       /\ answers[i].attempt_id = a_last.attempt_id
       /\ answers[j].attempt_id = a_last.attempt_id
       /\ IsMcqAnswer(answers[i]) /\ answers[i].is_correct = Some(TRUE)
       /\ ~IsMcqAnswer(answers[j]) /\ answers[j].points_awarded # None

\* C24 as stated, over SpecAnyCaller: a submit or complete call on an attempt
\* that belongs to another user than the caller is refused and changes no
\* attempt and no answer.
C24_OwnAttemptOnly ==
  [][(/\ a_last'.op \in {"submit", "complete"}
      /\ attempts[a_last'.attempt_id] # None
      /\ Row1(attempts[a_last'.attempt_id]).user_id # a_last'.caller)
       => /\ a_last'.result = "raised"
          /\ attempts' = attempts
          /\ answers' = answers]_vars

\* C26 as stated: a completed attempt has 0 <= score <= max_score, and
\* max_score is the sum of the points of its test's questions.
C26_ScoreWithinMax ==
  \A a \in AttemptIds :
    (attempts[a] # None /\ Row1(attempts[a]).completed_at # None)
      => LET attempt == Row1(attempts[a]) IN
         /\ Row1(attempt.max_score) = TotalPoints(attempt.test_id)
         /\ 0 <= Row1(attempt.score)
         /\ Row1(attempt.score) <= Row1(attempt.max_score)

\* C27 as stated: no attempt has two answers to one question.
C27_OneAnswerPerQuestion ==
  \A i, j \in 1..Len(answers) :
    (answers[i].attempt_id = answers[j].attempt_id
       /\ answers[i].question_id = answers[j].question_id) => i = j

\* C28 as stated: every stored answer is to a question of its attempt's test.
C28_QuestionOfOwnTest ==
  \A i \in 1..Len(answers) :
    attempts[answers[i].attempt_id] # None
      => QuestionTable[answers[i].question_id].test_id
           = Row1(attempts[answers[i].attempt_id]).test_id

(***************************************************************************)
(* Properties of part 6 (chunker), stated over SpecChunker.                *)
(***************************************************************************)

RECURSIVE Flatten(_)
Flatten(seqs) == IF seqs = <<>> THEN <<>> ELSE Head(seqs) \o Flatten(Tail(seqs))

\* The words of a chunk, or of a text, in order.
WordsOf(pieces) == Flatten([i \in DOMAIN pieces |-> pieces[i].words])

ChunksReturned == Row1(ck_out)

\* The chunk is one word, longer than max_chunk_size.
OverlongWord(chunk) ==
  /\ Len(WordsOf(chunk)) = 1
  /\ WordsOf(chunk)[1] > ck_in.max_chunk_size

\* C20: every chunk chunk_text returns is at most max_chunk_size characters
\* long unless it is a single word longer than max_chunk_size, and the
\* chunks are made of the whole words of the text, in order: no word is cut.
C20_ChunkBound ==
  ck_out # None
    => /\ \A c \in DOMAIN ChunksReturned :
            \/ JoinLen(ChunksReturned[c]) <= ck_in.max_chunk_size
            \/ OverlongWord(ChunksReturned[c])
       /\ WordsOf([c \in DOMAIN ChunksReturned |-> Piece(WordsOf(ChunksReturned[c]), 0)])
            = WordsOf(ck_in.text)

\* A text was cut into a chunk that is one over-long word and a chunk of
\* several pieces (the words of a split sentence, or whole sentences) that
\* fits max_chunk_size.
C20_Witness ==
  /\ ck_out # None
  /\ \E c \in DOMAIN ChunksReturned : OverlongWord(ChunksReturned[c])
  /\ \E c \in DOMAIN ChunksReturned :
       /\ Len(ChunksReturned[c]) > 1
       /\ JoinLen(ChunksReturned[c]) <= ck_in.max_chunk_size

\* The words of all chunks returned, in order.
ChunkWords(chunks) == WordsOf([c \in DOMAIN chunks |-> Piece(WordsOf(chunks[c]), 0)])

NoSentence == ck_in.text = <<>>

ShortText == TextLen(ck_in.text, ck_in.blank) < ck_in.max_chunk_size

MatIdle ==
  /\ vector_configured = TRUE
  /\ mat = [m \in MatIds |-> None]
  /\ next_id = 1
  /\ files = [p \in Paths |-> None]
  /\ chroma = {}
  /\ pc = [w \in Workers |-> "idle"]
  /\ wm = [w \in Workers |-> 0]
  /\ wop = [w \in Workers |-> "none"]
  /\ lcoll = [w \in Workers |-> None]
  /\ lchunks = [w \in Workers |-> 0]
  /\ last = NoRet
  /\ nreq = 0

GenIdle ==
  /\ gen_in = [test_type |-> "mcq", num_questions |-> 1, api_key |-> FALSE,
               text |-> "short", resp |-> Response("array", <<>>)]
  /\ gen_out = NoCall

FlowIdle ==
  /\ f_api_key = FALSE
  /\ db_test = None
  /\ db_questions = <<>>
  /\ fpc = "idle"
  /\ run = NoRun
  /\ flog = <<>>
  /\ fres = "none"

EvIdle ==
  /\ ev_in = [question |-> QuestionData("mcq", 1, <<TRUE>>, 0, 0),
              answers |-> <<EmptyText, EmptyText>>, api_key |-> FALSE]
  /\ ev_out = <<None, None>>

AttIdle ==
  /\ a_api_key = FALSE
  /\ attempts = [a \in AttemptIds |-> None]
  /\ answers = <<>>
  /\ a_last = ALast("none", 0, "none", "none", FALSE)

CkIdle ==
  /\ ck_in = [text |-> <<>>, blank |-> 0, max_chunk_size |-> 0, overlap |-> 0]
  /\ ck_out = None

RestIdle == EvIdle /\ AttIdle /\ CkIdle

\* Materials: upload, processing, deletion, by concurrent request handlers.
InitMaterial == MatInit /\ GenIdle /\ FlowIdle /\ RestIdle

SpecMaterial == InitMaterial /\ [][MatNext]_vars

\* The question generator, one call per behaviour.
GeneratorNext == CallGenerate

InitGenerator == GeneratorInit /\ MatIdle /\ FlowIdle /\ RestIdle

SpecGenerator == InitGenerator /\ [][GeneratorNext]_vars

\* create_test with its generation loop, then delete_test.
FlowNext ==
  \/ \E t \in TestTypes, ids \in MaterialIdLists, n \in 1..MaxCount : CreateTest(t, ids, n)
  \/ FlowStep
  \/ DeleteTest

InitTestFlow == FlowInit /\ MatIdle /\ GenIdle /\ RestIdle

SpecTestFlow == InitTestFlow /\ [][FlowNext]_vars

\* evaluate_answer, applied to two answers to one question.
EvaluatorNext == \E i \in 1..2 : CallEvaluate(i)

InitEvaluator == EvaluatorInit /\ MatIdle /\ GenIdle /\ FlowIdle /\ AttIdle /\ CkIdle

SpecEvaluator == InitEvaluator /\ [][EvaluatorNext]_vars

\* The attempt routes, called by the users of U.
AttemptCalls(U) ==
  \/ \E t \in AttemptTests \cup {3}, u \in TestTakers : StartAttempt(t, u)
  \/ \E u \in U, a \in AttemptIds, q \in QuestionIds :
       \E d \in AnswerData(q) : SubmitAnswer(u, a, q, d[1], d[2])
  \/ \E u \in U, a \in AttemptIds : CompleteAttempt(u, a)

\* Attempts: start, submit answers, complete (and complete again), all by
\* the user who takes the test.
AttemptNext == AttemptCalls(TestTakers)

InitAttempt == AttemptInit /\ MatIdle /\ GenIdle /\ FlowIdle /\ EvIdle /\ CkIdle

SpecAttempt == InitAttempt /\ [][AttemptNext]_vars

\* The same routes, called by any logged-in user.
AnyCallerNext == AttemptCalls(Callers)

SpecAnyCaller == InitAttempt /\ [][AnyCallerNext]_vars

\* chunk_text, one call per behaviour.
ChunkerNext == CallChunk

InitChunker == ChunkerInit /\ MatIdle /\ GenIdle /\ FlowIdle /\ EvIdle /\ AttIdle

SpecChunker == InitChunker /\ [][ChunkerNext]_vars

====
